---- MODULE Spec2Model ----
(***************************************************************************)
(* A model of the eligibility scheduler: the blackout predicate            *)
(* (eligibilty_api_schedule.py), the bounded-retry fetch (query_db.py),    *)
(* the file-based alert sink (alert_system.py) and the job runner with the *)
(* transform pipeline (eligibilty_api_schedule.py).                        *)
(*                                                                         *)
(* Each part of the program has its own specification over the same        *)
(* variables: SpecBlackout, SpecFetch, SpecName, SpecAlert, SpecJob.       *)
(***************************************************************************)
EXTENDS Integers, Sequences, FiniteSets, TLC

VARIABLES
    \* ---- wall clock and is_blackout_period ----
    now,             \* local time of day, in seconds since 00:00:00
    checked,         \* is_blackout_period has been called at the instant `now`
    blackoutResult,  \* what that call returned
    \* ---- DatabaseQuery.fetch_data ----
    fpc,             \* position inside fetch_data
    source,          \* self.source
    save_data,       \* self.save_data
    max_retries,     \* argument
    retry_delay,     \* argument
    retry_count,     \* local
    last_exception,  \* local: None or the error caught last
    connection,      \* local: None or the connection of this attempt
    pending,         \* the exception in flight / the value being returned
    openConns,       \* connections opened by engine.connect() and not closed
    everOpened,      \* number of connections opened by this call
    trace,           \* the call's events, in order: <<"attempt", n>>,
                     \* <<"sql", n>> / <<"other", n>> (attempt n raised),
                     \* <<"rows", n>>, <<"rollback", n>>, <<"sleep", seconds>>,
                     \* <<"close", connection id>>
    fetchResult,     \* what the call gave its caller
    \* ---- the alert file's name (write_alert_to_file, lines 82-85) ----
    nameSubject,     \* subject
    nameStamp,       \* second of the day at which the name is made
    filename,        \* the name made, <<>> before
    \* ---- the alert sink ----
    alertDirExists,  \* os.path.exists(ALERT_DIR)
    alertFiles,      \* the ALERT_*.txt files of ALERT_DIR
    alertHistory,    \* the lines of alert_history.log
    clock,           \* second: the wall clock's second (the name's timestamp);
                     \* tick: the file system's clock (a file's mtime)
    lastCall,        \* what the latest send_alert call did
    calls,           \* number of send_alert calls so far
    writes,          \* number of alert files written in full so far
    \* ---- the job runner ----
    jobRun,          \* the safe_execute call made, and what it did
    \* ---- the main flow and the scheduler thread ----
    mpc,             \* position of the main flow
    tpc,             \* position of the scheduler thread
    status,          \* the exit status asked for, -1 before
    entry,           \* the schedule's entry: until = next_run - now, seconds
    failures,        \* failures injected so far
    startup,         \* what the startup sequence did
    lastStep,        \* what the scheduler thread's latest statement did
    interrupted,     \* KeyboardInterrupt has been raised in the main flow
    \* ---- job executions and send_alert calls, statement by statement ----
    running,         \* the job executions in progress
    sa               \* per caller: the position and the locals of its
                     \* send_alert call

clockVars == <<now, checked, blackoutResult>>
fetchVars == <<fpc, source, save_data, max_retries, retry_delay, retry_count,
               last_exception, connection, pending, openConns, everOpened,
               trace, fetchResult>>
nameVars == <<nameSubject, nameStamp, filename>>
alertVars == <<alertDirExists, alertFiles, alertHistory, clock, lastCall,
               calls, writes>>
jobVars == <<jobRun>>
mainVars == <<mpc, tpc, status, entry, failures, startup, lastStep,
              interrupted>>
concVars == <<running, sa>>
vars == <<clockVars, fetchVars, nameVars, alertVars, jobVars, mainVars,
          concVars>>

None == [kind |-> "None"]

-----------------------------------------------------------------------------
(***************************************************************************)
(* The blackout predicate.                                                 *)
(***************************************************************************)
SecondsPerDay == 24 * 60 * 60

\* datetime.now().hour
HourOf(t) == t \div 3600

\* is_blackout_period(), for the current time t
is_blackout_period(t) ==
    LET current_hour == HourOf(t)
    IN  24 <= current_hour \/ current_hour < 2

ClockInit ==
    /\ now \in 0 .. SecondsPerDay - 1
    /\ checked = FALSE
    /\ blackoutResult = FALSE

\* A call of is_blackout_period at the current instant.
IsBlackoutPeriod ==
    /\ ~checked
    /\ checked' = TRUE
    /\ blackoutResult' = is_blackout_period(now)
    /\ UNCHANGED now

\* One second passes; the last call's answer is no longer about `now`.
ClockTick ==
    /\ now' = (now + 1) % SecondsPerDay
    /\ checked' = FALSE
    /\ blackoutResult' = FALSE

-----------------------------------------------------------------------------
(***************************************************************************)
(* DatabaseQuery.fetch_data: one call, statement by statement.             *)
(***************************************************************************)
MaxRetriesBound == 3      \* max_retries is drawn from 0 .. MaxRetriesBound
DefaultMaxRetries == 3
DefaultRetryDelay == 5

Sources == {"BI", "ORACLE_LIVE", "AHJ_DOT-CARE"}

\* An error raised during attempt number `at`.
\* kind "sql" is an SQLAlchemyError, kind "other" any other Exception.
Err(kind, at) == [kind |-> kind, at |-> at]

Attempt == retry_count + 1

\* while retry_count <= max_retries  (line 168)
LoopCondStrict(rc, mr) == rc < mr
LoopCond(rc, mr) == rc <= mr

\* if retry_count <= max_retries: time.sleep(retry_delay)  (line 194)
ShouldSleep(rc, mr) == rc <= mr

\* connection.close()  (line 200)
CloseConnLeak(conns, c) == conns
CloseConn(conns, c) == conns \ {c.id}

\* Where control goes once the finally clause has run: a pending return value
\* is returned, a pending exception propagates, otherwise the loop goes on.
AfterFinallyNoReturn(p) ==
    IF p.kind \in {"sql", "other"} THEN "propagate" ELSE "while"
AfterFinally(p) ==
    IF p.kind = "rows" THEN "return"
    ELSE IF p.kind \in {"sql", "other"} THEN "propagate"
    ELSE "while"

FetchIdle ==
    /\ fpc = "idle"
    /\ source = "BI"
    /\ save_data = FALSE
    /\ max_retries = 0
    /\ retry_delay = 0
    /\ retry_count = 0
    /\ last_exception = None
    /\ connection = None
    /\ pending = None
    /\ openConns = {}
    /\ everOpened = 0
    /\ trace = <<>>
    /\ fetchResult = None

\* The call: arguments are bound, the query is built, the counters are set
\* (lines 154-165).  An undefined source raises before any attempt.
FetchCall ==
    /\ fpc = "idle"
    /\ \E src \in Sources, sd \in BOOLEAN, mr \in 0 .. MaxRetriesBound,
          rd \in {1, DefaultRetryDelay} :
          /\ source' = src
          /\ save_data' = sd
          /\ max_retries' = mr
          /\ retry_delay' = rd
          /\ IF src \in {"BI", "ORACLE_LIVE"}
                THEN /\ fpc' = "while"
                     /\ fetchResult' = None
                ELSE /\ fpc' = "done"
                     /\ fetchResult' = [kind |-> "raise",
                                        error |-> Err("other", 0)]
    /\ retry_count' = 0
    /\ last_exception' = None
    /\ UNCHANGED <<connection, pending, openConns, everOpened, trace>>

\* while retry_count <= max_retries: connection = None  (lines 168-170)
LoopTest ==
    /\ fpc = "while"
    /\ IF LoopCond(retry_count, max_retries)
          THEN /\ fpc' = "connect"
               /\ connection' = None
          ELSE /\ fpc' = "raise_last"
               /\ UNCHANGED connection
    /\ pending' = None
    /\ UNCHANGED <<source, save_data, max_retries, retry_delay, retry_count,
                   last_exception, openConns, everOpened, trace, fetchResult>>

\* Where control goes from inside the try block when `e` is raised:
\* to the except clause for an SQLAlchemyError, else straight to finally.
HandlerForAny(e) == "except"
HandlerFor(e) == IF e.kind = "sql" THEN "except" ELSE "finally"

\* connection = self.engine.connect()  (line 172)
Connect ==
    /\ fpc = "connect"
    /\ \E outcome \in {"ok", "sql", "other"} :
          IF outcome = "ok"
             THEN /\ connection' = [kind |-> "conn", id |-> everOpened + 1]
                  /\ openConns' = openConns \cup {everOpened + 1}
                  /\ everOpened' = everOpened + 1
                  /\ pending' = None
                  /\ fpc' = "read"
                  /\ trace' = Append(trace, <<"attempt", Attempt>>)
             ELSE /\ pending' = Err(outcome, Attempt)
                  /\ fpc' = HandlerFor(Err(outcome, Attempt))
                  /\ trace' = trace \o <<(<<"attempt", Attempt>>),
                                          (<<outcome, Attempt>>)>>
                  /\ UNCHANGED <<connection, openConns, everOpened>>
    /\ UNCHANGED <<source, save_data, max_retries, retry_delay, retry_count,
                   last_exception, fetchResult>>

\* df = pd.read_sql(query, connection)  (line 174)
ReadSql ==
    /\ fpc = "read"
    /\ \E outcome \in {"ok", "sql", "other"} :
          IF outcome = "ok"
             THEN /\ pending' = [kind |-> "rows", at |-> Attempt]
                  /\ fpc' = IF save_data THEN "save" ELSE "finally"
                  /\ trace' = Append(trace, <<"rows", Attempt>>)
             ELSE /\ pending' = Err(outcome, Attempt)
                  /\ fpc' = HandlerFor(Err(outcome, Attempt))
                  /\ trace' = Append(trace, <<outcome, Attempt>>)
    /\ UNCHANGED <<source, save_data, max_retries, retry_delay, retry_count,
                   last_exception, connection, openConns, everOpened,
                   fetchResult>>

\* if self.save_data: self._save_dataframe(df); return df  (lines 175-177)
\* _save_dataframe raises ValueError / OSError, never an SQLAlchemyError.
SaveDataframe ==
    /\ fpc = "save"
    /\ \E outcome \in {"ok", "other"} :
          IF outcome = "ok"
             THEN UNCHANGED <<pending, trace>>
             ELSE /\ pending' = Err("other", Attempt)
                  /\ trace' = Append(trace, <<"other", Attempt>>)
    /\ fpc' = "finally"
    /\ UNCHANGED <<source, save_data, max_retries, retry_delay, retry_count,
                   last_exception, connection, openConns, everOpened,
                   fetchResult>>

\* except SQLAlchemyError as e: remember it, roll back if in a transaction
\* (a failing rollback is swallowed), count the retry  (lines 180-191)
ExceptSql ==
    /\ fpc = "except"
    /\ last_exception' = pending
    /\ \E rollback \in {"none", "ok", "failed"} :
          /\ (rollback # "none") => connection # None
          /\ trace' = IF rollback = "none" THEN trace
                      ELSE Append(trace, <<"rollback", Attempt>>)
    /\ retry_count' = retry_count + 1
    /\ pending' = None
    /\ fpc' = IF ShouldSleep(retry_count + 1, max_retries)
               THEN "sleep" ELSE "finally"
    /\ UNCHANGED <<source, save_data, max_retries, retry_delay, connection,
                   openConns, everOpened, fetchResult>>

\* time.sleep(retry_delay), still inside the except clause  (lines 194-196)
RetrySleep ==
    /\ fpc = "sleep"
    /\ trace' = Append(trace, <<"sleep", retry_delay>>)
    /\ fpc' = "finally"
    /\ UNCHANGED <<source, save_data, max_retries, retry_delay, retry_count,
                   last_exception, connection, pending, openConns, everOpened,
                   fetchResult>>

\* finally: if connection is not None: connection.close()  (lines 198-200),
\* then the return, the propagation of the uncaught error, or the next round.
Finally ==
    /\ fpc = "finally"
    /\ IF connection # None
          THEN /\ openConns' = CloseConn(openConns, connection)
               /\ trace' = Append(trace, <<"close", connection.id>>)
          ELSE UNCHANGED <<openConns, trace>>
    /\ CASE AfterFinally(pending) = "return" ->
                /\ fetchResult' = [kind |-> "return", at |-> pending.at]
                /\ fpc' = "done"
         [] AfterFinally(pending) = "propagate" ->
                /\ fetchResult' = [kind |-> "raise", error |-> pending]
                /\ fpc' = "done"
         [] OTHER ->
                /\ fpc' = "while"
                /\ UNCHANGED fetchResult
    /\ UNCHANGED <<source, save_data, max_retries, retry_delay, retry_count,
                   last_exception, connection, pending, everOpened>>

\* raise last_exception  (lines 203-204)
RaiseLast ==
    /\ fpc = "raise_last"
    /\ fetchResult' = [kind |-> "raise", error |-> last_exception]
    /\ fpc' = "done"
    /\ UNCHANGED <<source, save_data, max_retries, retry_delay, retry_count,
                   last_exception, connection, pending, openConns, everOpened,
                   trace>>

-----------------------------------------------------------------------------
(***************************************************************************)
(* The alert file's name.  Strings are sequences of one-character strings. *)
(***************************************************************************)
AlertTypeLen == 30
MaxPrefixLen == 3         \* free characters at the head of a subject

Min(a, b) == IF a < b THEN a ELSE b

\* str.replace(old, new) for one-character old and new
Replace(str, old, new) ==
    [i \in 1 .. Len(str) |-> IF str[i] = old THEN new ELSE str[i]]

\* str[:n]
Truncate(str, n) == SubSeq(str, 1, Min(Len(str), n))

\* subject.replace(" ", "_").replace("/", "_").replace("\\", "_")[:30]
alert_type_keeps_backslash(subject) ==
    Truncate(Replace(Replace(subject, " ", "_"), "/", "_"), AlertTypeLen)
alert_type(subject) ==
    Truncate(Replace(Replace(Replace(subject, " ", "_"), "/", "_"), "\\", "_"),
             AlertTypeLen)

Digits == <<"0", "1", "2", "3", "4", "5", "6", "7", "8", "9">>
TwoDigits(n) == <<Digits[(n \div 10) + 1], Digits[(n % 10) + 1]>>

\* datetime.now().strftime("%Y%m%d_%H%M%S") at second t of a day
\* (the date part is that of one fixed day)
Timestamp(t) ==
    <<"2", "0", "2", "5", "0", "1", "0", "1", "_">>
       \o TwoDigits(t \div 3600) \o TwoDigits((t \div 60) % 60)
       \o TwoDigits(t % 60)

\* f"ALERT_{timestamp}_{alert_type}.txt"
Filename(t, subject) ==
    <<"A", "L", "E", "R", "T", "_">> \o Timestamp(t) \o <<"_">>
       \o alert_type(subject) \o <<".", "t", "x", "t">>

NameChars == {"a", " ", "/", "\\", "_"}

RECURSIVE Repeat(_, _)
Repeat(c, n) == IF n = 0 THEN <<>> ELSE <<c>> \o Repeat(c, n - 1)

SeqsUpTo(S, n) == UNION {[1 .. k -> S] : k \in 0 .. n}

\* Subjects around the length cap: up to MaxPrefixLen free characters, then a
\* run of letters that ends before, at or after the cap.
NameSubjects ==
    {p \o Repeat("a", n) : p \in SeqsUpTo(NameChars, MaxPrefixLen),
                           n \in {0, AlertTypeLen - MaxPrefixLen,
                                  AlertTypeLen - 1, AlertTypeLen + 1}}

NameIdle == nameSubject = <<>> /\ nameStamp = 0 /\ filename = <<>>

NameInit ==
    /\ nameSubject \in NameSubjects
    /\ nameStamp \in {0, 7199, 79200, 86399}
    /\ filename = <<>>

\* lines 82-84 of write_alert_to_file
MakeFilename ==
    /\ filename = <<>>
    /\ filename' = Filename(nameStamp, nameSubject)
    /\ UNCHANGED <<nameSubject, nameStamp>>

-----------------------------------------------------------------------------
(***************************************************************************)
(* The alert sink (alert_system.py).  One send_alert call is one step; the *)
(* faults of the file system and of the mail server are its inputs.        *)
(***************************************************************************)
MAX_ALERTS == 2           \* 100 in alert_system.py (line 60), scaled down
MaxCalls == 3             \* send_alert calls in one behaviour

\* "Test Alert"  (line 172)
TestSubject ==
    <<"T", "e", "s", "t", " ", "A", "l", "e", "r", "t">>
\* "Error in ", " on "  (line 152)
ErrorIn ==
    <<"E", "r", "r", "o", "r", " ", "i", "n", " ">>
On ==
    <<" ", "o", "n", " ">>
\* socket.gethostname(): one host name
Hostname ==
    <<"p", "c">>
\* the job names of eligibilty_api_schedule.py (lines 44, 124, 135, 191)
SchedulerThread ==
    <<"S", "c", "h", "e", "d", "u", "l", "e", "r", "_", "T", "h", "r",
    "e", "a", "d">>
IqamaJobDotCare ==
    <<"I", "Q", "A", "M", "A", "_", "J", "O", "B", "_", "A", "H", "J",
    "_", "D", "O", "T", "-", "C", "A", "R", "E">>
ScheduledJobDotCare ==
    <<"S", "C", "H", "E", "D", "U", "L", "E", "D", "_", "J", "O", "B",
    "_", "A", "H", "J", "_", "D", "O", "T", "-", "C", "A", "R", "E">>
InitialJobDotCare ==
    <<"I", "N", "I", "T", "I", "A", "L", "_", "J", "O", "B", "_", "D",
    "O", "T", "-", "C", "A", "R", "E">>
\* f"Error in {job_name} on {hostname}"  (line 152)
ErrorSubject(job_name) == ErrorIn \o job_name \o On \o Hostname

\* The steps of send_alert that can fail, and those the code wraps in a
\* try/except: os.makedirs (65-70), the alert file's open and writes and the
\* history append (87-105), os.listdir and the sort by mtime (112-130),
\* os.remove (124-128), the mail (28-42).
Steps == {"mkdir", "write", "history", "list", "remove", "email"}
GuardedStepsButEmail == Steps \ {"email"}
GuardedSteps == {"mkdir", "write", "history", "list", "remove", "email"}

\* What can go wrong in one call.  write: "open" = the file cannot be
\* opened; "partial" = it is opened (created or truncated) and a write fails.
Faults ==
    [mkdir : BOOLEAN, write : {"ok", "open", "partial"}, history : BOOLEAN,
     list : BOOLEAN, remove : BOOLEAN, email : BOOLEAN]

\* The steps that fl makes fail, if the call gets to them.
FaultSteps(fl) ==
    {s \in Steps :
        \/ s = "mkdir" /\ fl.mkdir
        \/ s = "write" /\ fl.write # "ok"
        \/ s = "history" /\ fl.history
        \/ s = "list" /\ fl.list
        \/ s = "remove" /\ fl.remove
        \/ s = "email" /\ fl.email}

\* A file of the alert directory.
AlertFile(name, mtime, subject, body, complete) ==
    [name |-> name, mtime |-> mtime, subject |-> subject, body |-> body,
     complete |-> complete]

\* open(filepath, "w"): the file of that name is created or replaced.
PutFile(files, f) == {g \in files : g.name # f.name} \cup {f}

\* ensure_alert_directory(): <<the directory exists afterwards, return value,
\* log, steps tried, steps failed>>
ensure_alert_directory(dir, fl) ==
    IF ~dir
       THEN IF fl.mkdir
               THEN [dir |-> FALSE, ok |-> FALSE, log |-> <<"mkdir_failed">>,
                     attempted |-> {"mkdir"}, hit |-> {"mkdir"}]
               ELSE [dir |-> TRUE, ok |-> TRUE, log |-> <<"dir_created">>,
                     attempted |-> {"mkdir"}, hit |-> {}]
       ELSE [dir |-> TRUE, ok |-> TRUE, log |-> <<>>, attempted |-> {},
             hit |-> {}]

\* write_alert_to_file(subject, body) at clock clk, on the directory state
\* st = [dir, files, history], once ensure_alert_directory has given e and the
\* file's name is made.  filepath = <<>> stands for None.
WriteNamed(st, subject, body, fl, clk, e, name) ==
    IF ~e.ok
       THEN [dir |-> e.dir, files |-> st.files, history |-> st.history,
             filepath |-> <<>>, log |-> e.log,
             attempted |-> e.attempted, hit |-> e.hit, name |-> <<>>]
    ELSE IF fl.write # "ok"
       THEN [dir |-> e.dir,
             files |-> IF fl.write = "open" THEN st.files
                       ELSE PutFile(st.files,
                               AlertFile(name, clk.tick, subject, body, FALSE)),
             history |-> st.history,
             filepath |-> <<>>, log |-> e.log \o <<"write_failed">>,
             attempted |-> e.attempted \cup {"write"},
             hit |-> e.hit \cup {"write"}, name |-> name]
    ELSE IF fl.history
       THEN [dir |-> e.dir,
             files |-> PutFile(st.files,
                               AlertFile(name, clk.tick, subject, body, TRUE)),
             history |-> st.history,
             filepath |-> <<>>, log |-> e.log \o <<"write_failed">>,
             attempted |-> e.attempted \cup {"write", "history"},
             hit |-> e.hit \cup {"history"}, name |-> name]
    ELSE [dir |-> e.dir,
          files |-> PutFile(st.files,
                            AlertFile(name, clk.tick, subject, body, TRUE)),
          history |-> Append(st.history,
                             [second |-> clk.second, subject |-> subject]),
          filepath |-> name, log |-> e.log \o <<"alert_written">>,
          attempted |-> e.attempted \cup {"write", "history"},
          hit |-> e.hit, name |-> name]

write_alert_to_file(st, subject, body, fl, clk) ==
    CHOOSE w \in {WriteNamed(st, subject, body, fl, clk, e, name) :
                     e \in {ensure_alert_directory(st.dir, fl)},
                     name \in {Filename(clk.second, subject)}} : TRUE

\* len(alert_files) - MAX_ALERTS  (line 123)
Excess(n) == n - MAX_ALERTS

\* alert_files.sort(key=os.path.getmtime); the first k of the sorted list.
\* The sort is stable on os.listdir's arbitrary order, so among files of equal
\* mtime any may come first: every set of k files none of which is newer than
\* a file left out.
OldestNewestFirst(files, k) ==
    {D \in SUBSET files :
        /\ Cardinality(D) = k
        /\ \A d \in D, r \in files \ D : d.mtime >= r.mtime}
Oldest(files, k) ==
    {D \in SUBSET files :
        /\ Cardinality(D) = k
        /\ \A d \in D, r \in files \ D : d.mtime <= r.mtime}

\* cleanup_old_alerts() on the files of the directory: the possible outcomes.
\* With fl.remove some os.remove calls fail (and are passed over).
cleanup_old_alerts(dir, files, fl) ==
    IF ~dir
       THEN {[files |-> files, log |-> <<>>, hit |-> {}, removed |-> {},
              listed |-> 0, unremoved |-> {}]}
    ELSE IF fl.list
       THEN {[files |-> files, log |-> <<"cleanup_error">>, hit |-> {"list"},
              removed |-> {}, listed |-> 0, unremoved |-> {}]}
    ELSE IF Cardinality(files) > MAX_ALERTS
       THEN {[files |-> files \ (D \ F),
              log |-> [i \in 1 .. Cardinality(D \ F) |-> "cleaned"],
              hit |-> IF F = {} THEN {} ELSE {"remove"},
              removed |-> D \ F, listed |-> Cardinality(files),
              unremoved |-> F] :
                 <<D, F>> \in
                    {p \in UNION {{<<D0, F0>> : F0 \in SUBSET D0} :
                                   D0 \in Oldest(files,
                                                 Excess(Cardinality(files)))} :
                        (p[2] # {}) <=> fl.remove}}
    ELSE {[files |-> files, log |-> <<>>, hit |-> {}, removed |-> {},
           listed |-> Cardinality(files), unremoved |-> {}]}

\* notify_email(subject, body): <<log, steps failed>>
notify_email(fl) ==
    IF fl.email THEN [log |-> <<"email_failed">>, hit |-> {"email"}]
    ELSE [log |-> <<"email_sent">>, hit |-> {}]

\* send_alert(subject, body): the possible outcomes, each the directory state
\* afterwards with what the call did (call).
SendOutcome(subject, body, clk, w, c, m) ==
    [dir |-> w.dir, files |-> c.files, history |-> w.history,
     call |-> [subject |-> subject, body |-> body, name |-> w.name,
               attempted |-> w.attempted \cup {"cleanup", "email"},
               hit |-> w.hit \cup c.hit \cup m.hit,
               log |-> w.log \o c.log \o m.log,
               ret |-> (w.filepath # <<>>),
               raised |-> ~((w.hit \cup c.hit \cup m.hit)
                                \subseteq GuardedSteps),
               listed |-> c.listed,
               removed |-> c.removed,
               second |-> clk.second]]

send_alert(st, subject, body, fl, clk) ==
    UNION {{SendOutcome(subject, body, clk, w, c, notify_email(fl)) :
               c \in cleanup_old_alerts(w.dir, w.files, fl)} :
           w \in {write_alert_to_file(st, subject, body, fl, clk)}}

NoCall ==
    [subject |-> <<>>, body |-> <<>>, name |-> <<>>, attempted |-> {},
     hit |-> {}, log |-> <<>>, ret |-> FALSE, raised |-> FALSE,
     listed |-> 0, removed |-> {}, second |-> 0]

AlertState ==
    [dir |-> alertDirExists, files |-> alertFiles, history |-> alertHistory]

\* The state after a send_alert call with outcome o, the clocks then at clk.
AlertBecomesAt(o, clk) ==
    /\ alertDirExists' = o.dir
    /\ alertFiles' = o.files
    /\ alertHistory' = o.history
    /\ lastCall' = o.call
    /\ calls' = calls + 1
    /\ writes' = IF "write" \in o.call.attempted /\ "write" \notin o.call.hit
                    THEN writes + 1 ELSE writes
    /\ clock' = clk

\* The state after a send_alert call with outcome o.
AlertBecomes(o) == AlertBecomesAt(o, clock)

AlertIdle ==
    /\ alertDirExists = FALSE
    /\ alertFiles = {}
    /\ alertHistory = <<>>
    /\ clock = [second |-> 0, tick |-> 0]
    /\ lastCall = NoCall
    /\ calls = 0
    /\ writes = 0

\* The alerts directory is made on first use; it may be there from an
\* earlier run of the process.
AlertInit ==
    /\ alertDirExists \in BOOLEAN
    /\ alertFiles = {}
    /\ alertHistory = <<>>
    /\ clock = [second |-> 0, tick |-> 0]
    /\ lastCall = NoCall
    /\ calls = 0
    /\ writes = 0

AlertSubjects == {TestSubject, ErrorSubject(SchedulerThread)}
AlertBody == <<"body">>

\* A call send_alert(subject, body).  (A fault of a step the call does not
\* get to changes nothing: only the faults that strike are drawn.)
SendAlert ==
    /\ calls < MaxCalls
    /\ \E subject \in AlertSubjects, fl \in Faults :
         /\ fl.mkdir => ~alertDirExists /\ fl.write = "ok" /\ ~fl.list
         /\ fl.history => fl.write = "ok"
         /\ fl.remove => ~fl.list
         /\ \E o \in send_alert(AlertState, subject, AlertBody, fl, clock) :
               /\ FaultSteps(fl) = o.call.hit
               /\ AlertBecomes(o)

\* Only the order of the clock's readings matters to the sink (which name is
\* the same, which mtime is older), so the clock is let advance once per call
\* made, and not after the last call.
MayTick == clock.tick < calls /\ calls < MaxCalls

\* Time passes: the file system's clock advances within the second ...
MtimeTick ==
    /\ MayTick
    /\ clock' = [clock EXCEPT !.tick = @ + 1]
    /\ UNCHANGED <<alertDirExists, alertFiles, alertHistory, lastCall, calls,
                   writes>>

\* ... or the next second begins.
SecondTick ==
    /\ MayTick
    /\ clock' = [second |-> clock.second + 1, tick |-> clock.tick + 1]
    /\ UNCHANGED <<alertDirExists, alertFiles, alertHistory, lastCall, calls,
                   writes>>

-----------------------------------------------------------------------------
(***************************************************************************)
(* The job runner and the transform pipeline (eligibilty_api_schedule.py). *)
(* One safe_execute call is one step.  What src/utils.py does (the engine, *)
(* map_row, Iqama_table, the API, the extraction, update_table) is not in  *)
(* the model: such a step either raises or yields a value left open.       *)
(***************************************************************************)
MaxRows == 2              \* rows in a fetched frame

Keys == {"k1", "k2"}      \* the identifying columns of a row (visit_id)
Vals == {"a", "b"}        \* its other columns
Rows == [key : Keys, val : Vals]
Frames(n) == [1 .. n -> Rows]

\* The classes of the exceptions raised; all derive from Exception.
ExcClasses == {"ValueError", "SQLAlchemyError", "OSError"}
Exceptions == [class : ExcClasses, msg : {"m1", "m2"}, tb : {"tb1"}]

\* f"IQAMA_JOB_{source}"  (line 44)
IqamaJobOracle ==
    <<"I", "Q", "A", "M", "A", "_", "J", "O", "B", "_", "O", "R", "A",
    "C", "L", "E", "_", "L", "I", "V", "E">>
IqamaJob(src) ==
    IF src = "ORACLE_LIVE" THEN IqamaJobOracle ELSE IqamaJobDotCare

\* except Exception as e  (lines 39, 110)
CatchesValueErrorOnly(e) == e.class = "ValueError"
CatchesException(e) == e.class \in ExcClasses

\* f"{str(e)}\n\n{traceback.format_exc()}"  (lines 40, 111)
error_info(e) == [message |-> e.msg, trace |-> <<e.class, e.msg, e.tb>>]

\* error_body of error_handler  (alert_system.py, lines 153-157)
ErrorBody(job_name, info) ==
    [job_name |-> job_name, hostname |-> Hostname, details |-> info]

\* df.drop_duplicates(keep='last').reset_index(drop=True): a row is dropped
\* when a later row is equal to it in every column.
RECURSIVE KeepLast(_, _)
KeepLast(df, i) ==
    IF i > Len(df) THEN <<>>
    ELSE IF \E j \in i + 1 .. Len(df) : df[j] = df[i]
         THEN KeepLast(df, i + 1)
         ELSE <<df[i]>> \o KeepLast(df, i + 1)

drop_duplicates(df) == KeepLast(df, 1)

\* The steps of _eligibility_iqama_job that can raise, in program order:
\* line 56, 57, 58, 59, 68, 73/76, 74/77, 81-83, 87-90, 91, 93-97, 101/105,
\* 102/106.
JobSteps ==
    <<"engine", "read", "map_row", "in_csv", "Iqama_table", "iqama_csv",
      "iqama_table", "change_date", "api", "before_api_csv", "extract",
      "eligibility_csv", "eligibility_table">>

StepNo(step) == CHOOSE i \in 1 .. Len(JobSteps) : JobSteps[i] = step

\* The number of the step that raises; Len(JobSteps) + 1 if none does.
NoFailure == Len(JobSteps) + 1

\* if df_new.empty: return  (lines 61-63), placed after line 59
EmptyCheckAfter == StepNo("in_csv")

\* The last step run to its end, for a frame of n rows and a failure at
\* step f: the job returns at the emptiness test, or stops where it raises.
LastDone(n, f) ==
    IF n = 0 /\ f > EmptyCheckAfter THEN EmptyCheckAfter ELSE f - 1

Done(step, n, f) == StepNo(step) <= LastDone(n, f)

JobSources == {"ORACLE_LIVE", "AHJ_DOT-CARE"}

\* The snapshot files and the tables the job writes for a source.
SnapshotOf(step, src) ==
    CASE step = "in_csv" -> "data/in/IN_DATA"
      [] step = "before_api_csv" -> "data/in/before_api"
      [] step = "iqama_csv" ->
            IF src = "ORACLE_LIVE" THEN "data/OSIS/iqama"
            ELSE "data/DOT-CARE/iqama"
      [] step = "eligibility_csv" ->
            IF src = "ORACLE_LIVE" THEN "data/OSIS/eligibilty"
            ELSE "data/DOT-CARE/eligibilty"

TableOf(step, src) ==
    CASE step = "iqama_table" ->
            IF src = "ORACLE_LIVE" THEN "dbo.Iqama_data" ELSE "Iqama_dotcare"
      [] step = "eligibility_table" ->
            IF src = "ORACLE_LIVE" THEN "EligibilityResponses"
            ELSE "Eligibility_dotcare"

\* What a step raises when it fails: the data source's steps an
\* SQLAlchemyError, the file writes an OSError, the others a ValueError.
StepException(f) ==
    [class |-> IF JobSteps[f] \in {"engine", "read", "iqama_table",
                                   "eligibility_table"}
                  THEN "SQLAlchemyError"
               ELSE IF JobSteps[f] \in {"in_csv", "iqama_csv",
                                        "before_api_csv", "eligibility_csv"}
                  THEN "OSError"
               ELSE "ValueError",
     msg |-> "m1", tb |-> "tb1"]

\* _eligibility_iqama_job(query, source) up to its except clause: what it has
\* done when it returns or raises.  df is the frame after map_row, f the
\* step that raises, kept the rows that dropna leaves (by index).  reads
\* counts the calls of pd.read_sql_query (line 57).
JobBody(src, df, f, kept) ==
    LET n == Len(df)
        dedup == drop_duplicates(df)
    IN  [reads |-> IF f >= StepNo("read") THEN 1 ELSE 0,
         fetched |-> IF Done("read", n, f) THEN n ELSE -1,
         rows |-> IF Done("map_row", n, f) THEN df ELSE <<>>,
         deduplicated |-> Done("in_csv", n, f) /\ n > 0,
         downstream |-> IF Done("in_csv", n, f) /\ n > 0 THEN dedup ELSE <<>>,
         snapshots |->
            {SnapshotOf(st, src) :
                st \in {x \in {"in_csv", "iqama_csv", "before_api_csv",
                               "eligibility_csv"} : Done(x, n, f)}},
         tables |->
            {[table |-> TableOf(st, src),
              made_by |-> IF st = "iqama_table" THEN "Iqama_table"
                          ELSE "extract",
              of |-> IF st = "iqama_table" THEN dedup
                     ELSE SelectSeq([i \in 1 .. Len(dedup) |->
                                       IF i \in kept THEN dedup[i]
                                       ELSE [key |-> "", val |-> ""]],
                                    LAMBDA r : r.key # "")] :
                st \in {x \in {"iqama_table", "eligibility_table"} :
                           Done(x, n, f)}},
         failed |-> f # NoFailure /\ ~(n = 0 /\ f > EmptyCheckAfter),
         failed_at |-> IF f # NoFailure /\ ~(n = 0 /\ f > EmptyCheckAfter)
                          THEN JobSteps[f] ELSE ""]

NoRun ==
    [func |-> "", job_name |-> <<>>, source |-> "", exc |-> None,
     fetched |-> -1, rows |-> <<>>, deduplicated |-> FALSE,
     downstream |-> <<>>, snapshots |-> {}, tables |-> {},
     alerts |-> <<>>, escaped |-> FALSE, reads |-> 0, failed_at |-> ""]

JobIdle == jobRun = NoRun

JobNames == {InitialJobDotCare, ScheduledJobDotCare}

\* error_handler(job_name, error_info): the alert it sends.
ErrorAlert(job_name, info) ==
    [subject |-> ErrorSubject(job_name), body |-> ErrorBody(job_name, info)]

\* The alert sink takes the alert a: one send_alert call.
Alerted(a) ==
    \E fl \in Faults :
       /\ fl.mkdir => ~alertDirExists /\ fl.write = "ok" /\ ~fl.list
       /\ fl.history => fl.write = "ok"
       /\ fl.remove => ~fl.list
       /\ \E o \in send_alert(AlertState, a.subject, a.body, fl, clock) :
             /\ FaultSteps(fl) = o.call.hit
             /\ AlertBecomes(o)

\* safe_execute(func, job_name) for a func that raises e  (lines 37-41)
SafeExecuteRaising ==
    /\ jobRun = NoRun
    /\ \E job_name \in JobNames, e \in Exceptions :
          IF CatchesException(e)
             THEN /\ jobRun' = [NoRun EXCEPT
                                  !.func = "raising", !.job_name = job_name,
                                  !.exc = e,
                                  !.alerts = <<ErrorAlert(job_name,
                                                          error_info(e))>>]
                  /\ Alerted(ErrorAlert(job_name, error_info(e)))
             ELSE /\ jobRun' = [NoRun EXCEPT
                                  !.func = "raising", !.job_name = job_name,
                                  !.exc = e, !.escaped = TRUE]
                  /\ UNCHANGED alertVars

\* safe_execute(_eligibility_iqama_job, job_name, query, source): the job
\* catches what its steps raise and reports it itself under
\* f"IQAMA_JOB_{source}"  (lines 44, 110-112); nothing is left for
\* safe_execute to catch.  DataFrame.apply does not call map_row on a frame
\* without rows, so map_row raises only when there are rows.  (An input the
\* run does not get to use is fixed: no rows when the read fails, no failure
\* after the return on an empty frame, all rows kept when the extraction is
\* not reached.)
SafeExecuteJob ==
    /\ jobRun = NoRun
    /\ \E job_name \in JobNames, src \in JobSources, n \in 0 .. MaxRows,
          f \in 1 .. NoFailure :
         /\ f <= StepNo("read") => n = 0
         /\ f = StepNo("map_row") => n >= 1
         /\ n = 0 => (f <= EmptyCheckAfter \/ f = NoFailure)
         /\ \E df \in Frames(n) :
              \E kept \in SUBSET (1 .. Len(drop_duplicates(df))) :
                 /\ Done("extract", n, f) \/ kept = 1 .. Len(drop_duplicates(df))
                 /\ \E b \in {JobBody(src, df, f, kept)} :
                      IF b.failed
                         THEN \E a \in {ErrorAlert(IqamaJob(src),
                                                   error_info(StepException(f)))} :
                                 /\ jobRun' =
                                       [func |-> "_eligibility_iqama_job",
                                        job_name |-> job_name, source |-> src,
                                        exc |-> StepException(f),
                                        fetched |-> b.fetched,
                                        rows |-> b.rows,
                                        deduplicated |-> b.deduplicated,
                                        downstream |-> b.downstream,
                                        snapshots |-> b.snapshots,
                                        tables |-> b.tables,
                                        alerts |-> <<a>>, escaped |-> FALSE,
                                        reads |-> b.reads,
                                        failed_at |-> b.failed_at]
                                 /\ Alerted(a)
                         ELSE /\ jobRun' =
                                    [func |-> "_eligibility_iqama_job",
                                     job_name |-> job_name, source |-> src,
                                     exc |-> None, fetched |-> b.fetched,
                                     rows |-> b.rows,
                                     deduplicated |-> b.deduplicated,
                                     downstream |-> b.downstream,
                                     snapshots |-> b.snapshots,
                                     tables |-> b.tables,
                                     alerts |-> <<>>, escaped |-> FALSE,
                                     reads |-> b.reads,
                                     failed_at |-> b.failed_at]
                              /\ UNCHANGED alertVars

-----------------------------------------------------------------------------
(***************************************************************************)
(* The main flow and the scheduler thread (eligibilty_api_schedule.py,     *)
(* lines 114-124 and 143-213).  The time of day `now` moves only where the *)
(* program sleeps; a job, an alert and a statement take no time.  The      *)
(* failures of one behaviour (a step of the program that raises, an alert  *)
(* file that cannot be written) are at most MaxFailures.                   *)
(***************************************************************************)
MaxFailures == 1          \* failures injected in one behaviour

TickSeconds == 60
IntervalHours == 4
WakeHour == 2
IntervalSeconds == IntervalHours * 3600

\* "CRITICAL - Failed to start scheduler"  (line 167)
CriticalSubject ==
    <<"C", "R", "I", "T", "I", "C", "A", "L", " ", "-", " ", "F", "a", "i",
    "l", "e", "d", " ", "t", "o", " ", "s", "t", "a", "r", "t", " ", "s",
    "c", "h", "e", "d", "u", "l", "e", "r">>
\* "Scheduler Stopped"  (line 211)
StoppedSubject ==
    <<"S", "c", "h", "e", "d", "u", "l", "e", "r", " ", "S", "t", "o", "p",
    "p", "e", "d">>
\* "TEST_ERROR"  (alert_system.py, line 191)
TestError ==
    <<"T", "E", "S", "T", "_", "E", "R", "R", "O", "R">>

\* The body of an alert that is not made by error_handler: a text with the
\* host name  (alert_system.py lines 173-179; lines 165, 212).
NoticeBody(text) ==
    [job_name |-> <<>>, hostname |-> Hostname,
     details |-> [message |-> text, trace |-> <<>>]]

\* The times of day at which the process is started: 00:30:00, 01:59:59,
\* 02:00:00, 12:30:00, 22:00:00.
StartTimes == {1800, 7199, 7200, 45000, 79200}

\* What goes wrong in the sink in these behaviours: nothing, or the alert
\* file cannot be opened.
MainFaults ==
    {fl \in Faults : /\ ~fl.mkdir /\ ~fl.history /\ ~fl.list /\ ~fl.remove
                     /\ ~fl.email /\ fl.write \in {"ok", "open"}}

\* send_alert(a.subject, a.body), in a step in which k failures have struck
\* before the call.  Two calls of these behaviours are not made in the same
\* second.
Reported(a, k) ==
    \E fl \in MainFaults :
       \E j \in {k + (IF fl.write = "ok" THEN 0 ELSE 1)} :
          /\ failures + j <= MaxFailures
          /\ failures' = failures + j
          /\ \E o \in send_alert(AlertState, a.subject, a.body, fl, clock) :
                /\ FaultSteps(fl) = o.call.hit
                /\ AlertBecomesAt(o, [second |-> clock.second + 1,
                                      tick |-> clock.tick + 1])

\* A step that makes no send_alert call and in which nothing fails.
Quiet == UNCHANGED <<alertVars, failures>>

\* The exception a failing statement of the tick loop raises, and the one a
\* failing job raises at its read.
LoopError == [class |-> "OSError", msg |-> "m1", tb |-> "tb1"]
JobAlert(src) ==
    ErrorAlert(IqamaJob(src), error_info(StepException(StepNo("read"))))

\* while True: try ... except Exception: error_handler(...)  (lines 118-124):
\* where the thread is after the except clause.
LoopAfterExceptStops == "stopped"
LoopAfterExcept == "run_pending"

\* sys.exit(1) in the except clause of the query load  (line 168): where the
\* main flow is after the clause.
AfterLoadFailureGoesOn == "blackout_check"
AfterLoadFailure == "exiting"

\* (target_time - now).total_seconds()  (lines 175-182), now at second t
seconds_to_wait(t) ==
    IF HourOf(t) >= WakeHour
       THEN (SecondsPerDay - t) + WakeHour * 3600
       ELSE WakeHour * 3600 - t

NoStep ==
    [op |-> "", at |-> 0, due |-> FALSE, blackout |-> FALSE,
     invoked |-> FALSE, raised |-> FALSE, alerted |-> <<>>, next |-> 0]

NoStartup ==
    [test_only |-> FALSE, load |-> "none", log |-> <<>>, alerted |-> <<>>]

MainIdle ==
    /\ mpc = "idle"
    /\ tpc = "not_started"
    /\ status = -1
    /\ entry = [scheduled |-> FALSE, until |-> 0]
    /\ failures = 0
    /\ startup = NoStartup
    /\ lastStep = NoStep
    /\ interrupted = FALSE

\* The process is started at some time of day, with or without the
\* argument --test-alert; k of the failures have been spent.
MainStart(k) ==
    /\ now \in StartTimes
    /\ checked = FALSE
    /\ blackoutResult = FALSE
    /\ mpc = "test_alert"
    /\ tpc = "not_started"
    /\ status = -1
    /\ entry = [scheduled |-> FALSE, until |-> 0]
    /\ failures = k
    /\ startup \in {[NoStartup EXCEPT !.test_only = t] : t \in BOOLEAN}
    /\ lastStep = NoStep
    /\ interrupted = FALSE

MainInit == MainStart(0)

\* test_alert_system() up to its test of `success`  (lines 145-156;
\* alert_system.py lines 169-182, 199-201)
TestAlert ==
    /\ mpc = "test_alert"
    /\ Reported([subject |-> TestSubject, body |-> NoticeBody("test")], 0)
    /\ mpc' = IF lastCall'.ret THEN "test_error"
              ELSE IF startup.test_only THEN "exiting" ELSE "load"
    /\ status' = IF ~lastCall'.ret /\ startup.test_only THEN 0 ELSE status
    /\ UNCHANGED <<now, tpc, entry, startup, lastStep, interrupted>>

\* ... and the simulated error it reports  (alert_system.py lines 186-198);
\* with --test-alert the process then exits with status 0  (lines 148-149).
TestErrorAlert ==
    /\ mpc = "test_error"
    /\ Reported(ErrorAlert(TestError, error_info(
                   [class |-> "ValueError", msg |-> "m1", tb |-> "tb1"])), 0)
    /\ mpc' = IF startup.test_only THEN "exiting" ELSE "load"
    /\ status' = IF startup.test_only THEN 0 ELSE status
    /\ UNCHANGED <<now, tpc, entry, startup, lastStep, interrupted>>

\* The two query files are read  (lines 158-168).
LoadQueries ==
    /\ mpc = "load"
    /\ \E ok \in BOOLEAN :
          IF ok
             THEN /\ Quiet
                  /\ startup' = [startup EXCEPT !.load = "ok"]
                  /\ mpc' = "blackout_check"
                  /\ UNCHANGED status
             ELSE /\ Reported([subject |-> CriticalSubject,
                               body |-> NoticeBody("load")], 1)
                  /\ startup' = [startup EXCEPT
                                   !.load = "failed",
                                   !.log = <<"critical">>,
                                   !.alerted = <<CriticalSubject>>]
                  /\ mpc' = AfterLoadFailure
                  /\ status' = 1
    /\ UNCHANGED <<now, tpc, entry, lastStep, interrupted>>

\* if is_blackout_period():  (line 171)
StartupBlackoutCheck ==
    /\ mpc = "blackout_check"
    /\ mpc' = IF is_blackout_period(now) THEN "wait" ELSE "first_job"
    /\ Quiet
    /\ UNCHANGED <<now, tpc, status, entry, startup, lastStep, interrupted>>

\* now = datetime.now(); ...; time.sleep(seconds_to_wait)  (lines 175-186).
\* The clock is read again here: the next second may have begun since the
\* reading of line 171.
StartupWait ==
    /\ mpc = "wait"
    /\ \E late \in {0, 1} :
          \E t \in {(now + late) % SecondsPerDay} :
             now' = (t + seconds_to_wait(t)) % SecondsPerDay
    /\ mpc' = "first_job"
    /\ Quiet
    /\ UNCHANGED <<tpc, status, entry, startup, lastStep, interrupted>>

\* safe_execute(_eligibility_iqama_job, "INITIAL_JOB_DOT-CARE", ...)
\* (lines 189-193)
FirstJob ==
    /\ mpc = "first_job"
    /\ \E fails \in BOOLEAN :
          IF fails THEN Reported(JobAlert("AHJ_DOT-CARE"), 1) ELSE Quiet
    /\ mpc' = "schedule"
    /\ UNCHANGED <<now, tpc, status, entry, startup, lastStep, interrupted>>

\* schedule.every(4).hours.do(...); scheduler_thread.start()
\* (lines 196-201): the entry is due one interval from now, the thread runs.
StartScheduler ==
    /\ mpc = "schedule"
    /\ entry' = [scheduled |-> TRUE, until |-> IntervalSeconds]
    /\ tpc' = "run_pending"
    /\ mpc' = "join"
    /\ Quiet
    /\ UNCHANGED <<now, status, startup, lastStep, interrupted>>

\* KeyboardInterrupt while the main flow is in scheduler_thread.join(1);
\* the except clause sends the notification and the main flow ends
\* (lines 204-213).
KeyboardInterrupt ==
    /\ mpc = "join"
    /\ interrupted' = TRUE
    /\ Reported([subject |-> StoppedSubject, body |-> NoticeBody("stopped")],
                0)
    /\ mpc' = "exiting"
    /\ status' = 0
    /\ UNCHANGED <<now, tpc, entry, startup, lastStep>>

\* The interpreter exits once the main flow has ended and no thread that is
\* not a daemon is alive  (line 200: the thread is not made a daemon).
ProcessExit ==
    /\ mpc = "exiting"
    /\ tpc \in {"not_started", "stopped"}
    /\ mpc' = "exited"
    /\ Quiet
    /\ UNCHANGED <<now, tpc, status, entry, startup, lastStep, interrupted>>

\* schedule.run_pending()  (line 120): the entry is run if it is due, by
\* run_job_if_allowed (lines 134-140), and is then due one interval from
\* now; or the statement raises, and the except clause reports it
\* (lines 122-124).
RunPending ==
    /\ tpc = "run_pending"
    /\ \E raises \in BOOLEAN, fails \in BOOLEAN :
          IF raises
             THEN /\ ~fails
                  /\ Reported(ErrorAlert(SchedulerThread,
                                         error_info(LoopError)), 1)
                  /\ lastStep' = [NoStep EXCEPT
                                    !.op = "run_pending", !.at = now,
                                    !.raised = TRUE,
                                    !.alerted =
                                       <<ErrorSubject(SchedulerThread)>>]
                  /\ tpc' = LoopAfterExcept
                  /\ UNCHANGED entry
             ELSE \E due \in {entry.until <= 0},
                     b \in {is_blackout_period(now)} :
                     /\ fails => (due /\ ~b)
                     /\ IF fails
                           THEN Reported(JobAlert("AHJ_DOT-CARE"), 1)
                           ELSE Quiet
                     /\ entry' = IF due
                                    THEN [entry EXCEPT
                                            !.until = IntervalSeconds]
                                    ELSE entry
                     /\ lastStep' =
                           [op |-> "run_pending", at |-> now, due |-> due,
                            blackout |-> due /\ b, invoked |-> due /\ ~b,
                            raised |-> FALSE,
                            alerted |->
                               IF fails
                                  THEN <<ErrorSubject(
                                            IqamaJob("AHJ_DOT-CARE"))>>
                                  ELSE <<>>,
                            next |-> IF due THEN IntervalSeconds
                                     ELSE entry.until]
                     /\ tpc' = "sleep"
    /\ UNCHANGED <<now, mpc, status, startup, interrupted>>

\* time.sleep(60)  (line 121), or the statement raises and the except
\* clause reports it  (lines 122-124).
TickSleep ==
    /\ tpc = "sleep"
    /\ \E raises \in BOOLEAN :
          IF raises
             THEN /\ Reported(ErrorAlert(SchedulerThread,
                                         error_info(LoopError)), 1)
                  /\ lastStep' = [NoStep EXCEPT
                                    !.op = "sleep", !.at = now,
                                    !.raised = TRUE,
                                    !.alerted =
                                       <<ErrorSubject(SchedulerThread)>>]
                  /\ tpc' = LoopAfterExcept
                  /\ UNCHANGED <<now, entry>>
             ELSE /\ Quiet
                  /\ now' = (now + TickSeconds) % SecondsPerDay
                  /\ entry' = [entry EXCEPT !.until = @ - TickSeconds]
                  /\ lastStep' = [NoStep EXCEPT !.op = "sleep", !.at = now]
                  /\ tpc' = "run_pending"
    /\ UNCHANGED <<mpc, status, startup, interrupted>>

MainStep ==
    \/ TestAlert \/ TestErrorAlert \/ LoadQueries \/ StartupBlackoutCheck
    \/ StartupWait \/ FirstJob \/ StartScheduler \/ KeyboardInterrupt
    \/ ProcessExit
ThreadStep == RunPending \/ TickSleep

-----------------------------------------------------------------------------
(***************************************************************************)
(* Job executions with a beginning and an end.  A job execution is a call  *)
(* safe_execute(_eligibility_iqama_job, job_name, ...): it is in progress  *)
(* from the call until safe_execute returns.                               *)
(***************************************************************************)
Callers == {"main", "thread"}

Execution(by, job_name) == [by |-> by, job_name |-> job_name]

\* safe_execute(...) at line 191 is a call: the main flow is inside it until
\* it returns.
FirstJobCallDetached == "schedule"
FirstJobCall == "in_first_job"

\* safe_execute(_eligibility_iqama_job, "INITIAL_JOB_DOT-CARE", ...) is
\* called  (lines 189-191)
FirstJobBegins ==
    /\ mpc = "first_job"
    /\ running' = running \cup {Execution("main", InitialJobDotCare)}
    /\ mpc' = FirstJobCall
    /\ Quiet
    /\ UNCHANGED <<now, tpc, status, entry, startup, lastStep, interrupted>>

\* ... and returns, the job done or its failure reported  (lines 191-193)
FirstJobEnds ==
    /\ mpc = FirstJobCall
    /\ Execution("main", InitialJobDotCare) \in running
    /\ \E fails \in BOOLEAN :
          IF fails THEN Reported(JobAlert("AHJ_DOT-CARE"), 1) ELSE Quiet
    /\ running' = running \ {Execution("main", InitialJobDotCare)}
    /\ mpc' = "schedule"
    /\ UNCHANGED <<now, tpc, status, entry, startup, lastStep, interrupted>>

\* schedule.run_pending() when it runs no job: the entry is not due, or it
\* is due in the blackout and skipped, or the statement raises
\* (lines 120, 134-140).
PendingWithoutJob ==
    /\ RunPending
    /\ ~lastStep'.invoked

\* schedule.run_pending() runs the entries that are due one after another,
\* each to its end (the program has one entry, line 198):
\* run_job_if_allowed calls safe_execute  (lines 136-138)
DueJobBegins ==
    /\ tpc = "run_pending"
    /\ entry.until <= 0
    /\ ~is_blackout_period(now)
    /\ running' = running \cup {Execution("thread", ScheduledJobDotCare)}
    /\ tpc' = "in_job"
    /\ Quiet
    /\ UNCHANGED <<now, mpc, status, entry, startup, lastStep, interrupted>>

\* ... and safe_execute returns, the job done or its failure reported; the
\* entry is then due one interval from now.
DueJobEnds ==
    /\ tpc = "in_job"
    /\ \E fails \in BOOLEAN :
          /\ IF fails THEN Reported(JobAlert("AHJ_DOT-CARE"), 1) ELSE Quiet
          /\ lastStep' =
                [op |-> "run_pending", at |-> now, due |-> TRUE,
                 blackout |-> FALSE, invoked |-> TRUE, raised |-> FALSE,
                 alerted |->
                    IF fails THEN <<ErrorSubject(IqamaJob("AHJ_DOT-CARE"))>>
                    ELSE <<>>,
                 next |-> IntervalSeconds]
    /\ running' = running \ {Execution("thread", ScheduledJobDotCare)}
    /\ entry' = [entry EXCEPT !.until = IntervalSeconds]
    /\ tpc' = "sleep"
    /\ UNCHANGED <<now, mpc, status, startup, interrupted>>

-----------------------------------------------------------------------------
(***************************************************************************)
(* Two send_alert calls at once (alert_system.py), statement by statement: *)
(* the main flow's "Scheduler Stopped" notification (lines 210-213 of      *)
(* eligibilty_api_schedule.py) and a report of the scheduler thread        *)
(* (line 124).  Nothing fails but what the other call makes fail.  Every   *)
(* write of a file advances the file system's clock, so that the files'    *)
(* mtimes tell the order in which they were written.                       *)
(***************************************************************************)
SubjectOf(p) ==
    IF p = "main" THEN StoppedSubject ELSE ErrorSubject(SchedulerThread)

NoSend ==
    [pc |-> "idle", filepath |-> <<>>, listing |-> {}, queue |-> <<>>,
     removed |-> {}, log |-> <<>>, ret |-> FALSE, raised |-> FALSE]

ConcIdle ==
    /\ running = {}
    /\ sa = [p \in Callers |-> NoSend]

\* The alert files that n earlier alerts have left, written one per second.
OldFiles(n) ==
    {AlertFile(Filename(i, TestSubject), i, TestSubject, AlertBody, TRUE) :
        i \in 1 .. n}

\* Both calls are made; the directory holds what the process's earlier
\* alerts have left, at most MAX_ALERTS files, or it has not been made yet.
RaceInit ==
    /\ \E n \in 0 .. MAX_ALERTS :
          /\ alertDirExists \in (IF n = 0 THEN BOOLEAN ELSE {TRUE})
          /\ alertFiles = OldFiles(n)
          /\ alertHistory =
                [i \in 1 .. n |-> [second |-> i, subject |-> TestSubject]]
          /\ clock = [second |-> n + 1, tick |-> n + 1]
    /\ lastCall = NoCall
    /\ calls = 0
    /\ writes = 0
    /\ running = {}
    /\ sa = [p \in Callers |-> [NoSend EXCEPT !.pc = "exists"]]

\* A step of p's call; a step that raises does it inside a try block or not.
Caught(step) == step \in GuardedSteps
At(p, pc) == sa[p].pc = pc
Goes(p, r) == sa' = [sa EXCEPT ![p] = r]
Fails(p, step, tag, pc) ==
    [sa[p] EXCEPT !.log = Append(@, tag), !.raised = @ \/ ~Caught(step),
                  !.pc = pc]

\* files sorted by mtime, oldest first  (line 120)
RECURSIVE ByMtime(_)
ByMtime(files) ==
    IF files = {} THEN <<>>
    ELSE LET f == CHOOSE f \in files : \A g \in files : f.mtime <= g.mtime
         IN  <<f.name>> \o ByMtime(files \ {f})

\* if not os.path.exists(ALERT_DIR):  (line 64)
DirExists(p) ==
    /\ At(p, "exists")
    /\ Goes(p, [sa[p] EXCEPT !.pc = IF alertDirExists THEN "write"
                                    ELSE "makedirs"])
    /\ UNCHANGED <<alertDirExists, alertFiles, alertHistory, clock>>

\* os.makedirs(ALERT_DIR)  (lines 65-70, 78-79): it raises FileExistsError
\* if the directory has been made since line 64; write_alert_to_file then
\* returns None.
Makedirs(p) ==
    /\ At(p, "makedirs")
    /\ IF alertDirExists
          THEN Goes(p, Fails(p, "mkdir", "mkdir_failed", "cleanup"))
          ELSE Goes(p, [sa[p] EXCEPT !.log = Append(@, "dir_created"),
                                     !.pc = "write"])
    /\ alertDirExists' = TRUE
    /\ UNCHANGED <<alertFiles, alertHistory, clock>>

\* the alert file is named, opened with mode "w" and written
\* (lines 82-95)
WriteFile(p) ==
    /\ At(p, "write")
    /\ alertFiles' =
          PutFile(alertFiles,
                  AlertFile(Filename(clock.second, SubjectOf(p)), clock.tick,
                            SubjectOf(p), AlertBody, TRUE))
    /\ clock' = [clock EXCEPT !.tick = @ + 1]
    /\ Goes(p, [sa[p] EXCEPT !.pc = "history"])
    /\ UNCHANGED <<alertDirExists, alertHistory>>

\* the line of alert_history.log is appended, in one write
\* (lines 98-102)
AppendHistory(p) ==
    /\ At(p, "history")
    /\ alertHistory' = Append(alertHistory,
                              [second |-> clock.second,
                               subject |-> SubjectOf(p)])
    /\ Goes(p, [sa[p] EXCEPT
                  !.filepath = Filename(clock.second, SubjectOf(p)),
                  !.log = Append(@, "alert_written"),
                  !.pc = "cleanup"])
    /\ UNCHANGED <<alertDirExists, alertFiles, clock>>

\* cleanup_old_alerts(): the directory is listed and the files counted
\* (lines 109-118)
ListDir(p) ==
    /\ At(p, "cleanup")
    /\ \E names \in {{f.name : f \in alertFiles}} :
          Goes(p, [sa[p] EXCEPT
                     !.listing = IF alertDirExists THEN names ELSE {},
                     !.pc = IF alertDirExists /\
                               Cardinality(names) > MAX_ALERTS
                               THEN "sort" ELSE "email"])
    /\ UNCHANGED <<alertDirExists, alertFiles, alertHistory, clock>>

\* alert_files.sort(key=os.path.getmtime)  (line 120): os.path.getmtime
\* raises FileNotFoundError for a listed file that has been removed since,
\* and the except clause of line 129 ends the cleanup.
SortByMtime(p) ==
    /\ At(p, "sort")
    /\ \E names \in {{f.name : f \in alertFiles}} :
          IF sa[p].listing \subseteq names
             THEN Goes(p, [sa[p] EXCEPT
                             !.queue =
                                SubSeq(ByMtime({f \in alertFiles :
                                                  f.name \in sa[p].listing}),
                                       1,
                                       Excess(Cardinality(sa[p].listing))),
                             !.pc = "remove"])
             ELSE Goes(p, Fails(p, "list", "cleanup_error", "email"))
    /\ UNCHANGED <<alertDirExists, alertFiles, alertHistory, clock>>

\* os.remove(alert_files[i])  (lines 123-128): a file that is gone is passed
\* over.
RemoveOldest(p) ==
    /\ At(p, "remove")
    /\ \E gone \in {{f \in alertFiles : f.name = Head(sa[p].queue)}} :
          /\ alertFiles' = alertFiles \ gone
          /\ Goes(p, [sa[p] EXCEPT
                        !.queue = Tail(@),
                        !.removed = @ \cup gone,
                        !.log = IF gone = {} THEN @
                                ELSE Append(@, "cleaned"),
                        !.raised = @ \/ (gone = {} /\ ~Caught("remove")),
                        !.pc = IF Len(sa[p].queue) = 1 THEN "email"
                               ELSE "remove"])
    /\ UNCHANGED <<alertDirExists, alertHistory, clock>>

\* notify_email(subject, body); return filepath is not None
\* (lines 140-142)
NotifyEmail(p) ==
    /\ At(p, "email")
    /\ Goes(p, [sa[p] EXCEPT !.log = Append(@, "email_sent"),
                             !.ret = (sa[p].filepath # <<>>),
                             !.pc = "done"])
    /\ UNCHANGED <<alertDirExists, alertFiles, alertHistory, clock>>

-----------------------------------------------------------------------------
InitBlackout == ClockInit /\ FetchIdle /\ NameIdle /\ AlertIdle /\ JobIdle
    /\ MainIdle /\ ConcIdle
NextBlackout ==
    \/ IsBlackoutPeriod /\ UNCHANGED <<fetchVars, nameVars, alertVars, jobVars,
                                       mainVars, concVars>>
    \/ ClockTick /\ UNCHANGED <<fetchVars, nameVars, alertVars, jobVars,
                                mainVars, concVars>>
SpecBlackout == InitBlackout /\ [][NextBlackout]_vars

ClockIdle == now = 0 /\ checked = FALSE /\ blackoutResult = FALSE

InitFetch == ClockIdle /\ FetchIdle /\ NameIdle /\ AlertIdle /\ JobIdle
    /\ MainIdle /\ ConcIdle
NextFetch ==
    \/ FetchCall /\ UNCHANGED <<clockVars, nameVars, alertVars, jobVars,
                                mainVars, concVars>>
    \/ LoopTest /\ UNCHANGED <<clockVars, nameVars, alertVars, jobVars,
                               mainVars, concVars>>
    \/ Connect /\ UNCHANGED <<clockVars, nameVars, alertVars, jobVars,
                              mainVars, concVars>>
    \/ ReadSql /\ UNCHANGED <<clockVars, nameVars, alertVars, jobVars,
                              mainVars, concVars>>
    \/ SaveDataframe /\ UNCHANGED <<clockVars, nameVars, alertVars, jobVars,
                                    mainVars, concVars>>
    \/ ExceptSql /\ UNCHANGED <<clockVars, nameVars, alertVars, jobVars,
                                mainVars, concVars>>
    \/ RetrySleep /\ UNCHANGED <<clockVars, nameVars, alertVars, jobVars,
                                 mainVars, concVars>>
    \/ Finally /\ UNCHANGED <<clockVars, nameVars, alertVars, jobVars,
                              mainVars, concVars>>
    \/ RaiseLast /\ UNCHANGED <<clockVars, nameVars, alertVars, jobVars,
                                mainVars, concVars>>
SpecFetch == InitFetch /\ [][NextFetch]_vars

InitName == ClockIdle /\ FetchIdle /\ NameInit /\ AlertIdle /\ JobIdle
    /\ MainIdle /\ ConcIdle
NextName ==
    MakeFilename /\ UNCHANGED <<clockVars, fetchVars, alertVars, jobVars,
                                mainVars, concVars>>
SpecName == InitName /\ [][NextName]_vars

InitAlert == ClockIdle /\ FetchIdle /\ NameIdle /\ AlertInit /\ JobIdle
    /\ MainIdle /\ ConcIdle
NextAlert ==
    \/ SendAlert /\ UNCHANGED <<clockVars, fetchVars, nameVars, jobVars,
                                mainVars, concVars>>
    \/ MtimeTick /\ UNCHANGED <<clockVars, fetchVars, nameVars, jobVars,
                                mainVars, concVars>>
    \/ SecondTick /\ UNCHANGED <<clockVars, fetchVars, nameVars, jobVars,
                                 mainVars, concVars>>
SpecAlert == InitAlert /\ [][NextAlert]_vars

InitJob == ClockIdle /\ FetchIdle /\ NameIdle /\ AlertInit /\ JobIdle
    /\ MainIdle /\ ConcIdle
NextJob ==
    \/ SafeExecuteRaising /\ UNCHANGED <<clockVars, fetchVars, nameVars,
                                         mainVars, concVars>>
    \/ SafeExecuteJob /\ UNCHANGED <<clockVars, fetchVars, nameVars,
                                     mainVars, concVars>>
SpecJob == InitJob /\ [][NextJob]_vars

restVars == <<checked, blackoutResult, fetchVars, nameVars, jobVars,
              concVars>>

InitMain == MainInit /\ FetchIdle /\ NameIdle /\ AlertIdle /\ JobIdle
    /\ ConcIdle
NextMain ==
    \/ TestAlert /\ UNCHANGED restVars
    \/ TestErrorAlert /\ UNCHANGED restVars
    \/ LoadQueries /\ UNCHANGED restVars
    \/ StartupBlackoutCheck /\ UNCHANGED restVars
    \/ StartupWait /\ UNCHANGED restVars
    \/ FirstJob /\ UNCHANGED restVars
    \/ StartScheduler /\ UNCHANGED restVars
    \/ KeyboardInterrupt /\ UNCHANGED restVars
    \/ ProcessExit /\ UNCHANGED restVars
    \/ RunPending /\ UNCHANGED restVars
    \/ TickSleep /\ UNCHANGED restVars
SpecMain == InitMain /\ [][NextMain]_vars

\* The behaviours in which nothing fails, each of the two threads running
\* when it can.
InitShutdown ==
    MainStart(MaxFailures) /\ FetchIdle /\ NameIdle /\ AlertIdle /\ JobIdle
    /\ ConcIdle
SpecShutdown ==
    /\ InitShutdown
    /\ [][NextMain]_vars
    /\ WF_vars(MainStep /\ UNCHANGED restVars)
    /\ WF_vars(ThreadStep /\ UNCHANGED restVars)


\* The main flow and the scheduler thread, a job execution having a
\* beginning and an end.
overlapRest == <<checked, blackoutResult, fetchVars, nameVars, jobVars>>

InitOverlap == InitMain
NextOverlap ==
    \/ TestAlert /\ UNCHANGED restVars
    \/ TestErrorAlert /\ UNCHANGED restVars
    \/ LoadQueries /\ UNCHANGED restVars
    \/ StartupBlackoutCheck /\ UNCHANGED restVars
    \/ StartupWait /\ UNCHANGED restVars
    \/ FirstJobBegins /\ UNCHANGED <<overlapRest, sa>>
    \/ FirstJobEnds /\ UNCHANGED <<overlapRest, sa>>
    \/ StartScheduler /\ UNCHANGED restVars
    \/ KeyboardInterrupt /\ UNCHANGED restVars
    \/ ProcessExit /\ UNCHANGED restVars
    \/ PendingWithoutJob /\ UNCHANGED restVars
    \/ DueJobBegins /\ UNCHANGED <<overlapRest, sa>>
    \/ DueJobEnds /\ UNCHANGED <<overlapRest, sa>>
    \/ TickSleep /\ UNCHANGED restVars
SpecOverlap == InitOverlap /\ [][NextOverlap]_vars

\* Two send_alert calls at once.
raceRest == <<clockVars, fetchVars, nameVars, jobVars, mainVars, lastCall,
              calls, writes, running>>

InitRace ==
    ClockIdle /\ FetchIdle /\ NameIdle /\ JobIdle /\ MainIdle /\ RaceInit
NextRace ==
    \/ \E p \in Callers : DirExists(p) /\ UNCHANGED raceRest
    \/ \E p \in Callers : Makedirs(p) /\ UNCHANGED raceRest
    \/ \E p \in Callers : WriteFile(p) /\ UNCHANGED raceRest
    \/ \E p \in Callers : AppendHistory(p) /\ UNCHANGED raceRest
    \/ \E p \in Callers : ListDir(p) /\ UNCHANGED raceRest
    \/ \E p \in Callers : SortByMtime(p) /\ UNCHANGED raceRest
    \/ \E p \in Callers : RemoveOldest(p) /\ UNCHANGED raceRest
    \/ \E p \in Callers : NotifyEmail(p) /\ UNCHANGED raceRest
SpecRace == InitRace /\ [][NextRace]_vars

-----------------------------------------------------------------------------
(***************************************************************************)
(* Claims about is_blackout_period.                                        *)
(***************************************************************************)
\* [22:00, 02:00), wrapping midnight
InWindow22To02(t) == HourOf(t) \in {22, 23, 0, 1}

\* C1: is_blackout_period returns true for every time inside [22:00, 02:00)
\* (hours 22, 23, 0, 1), false for every time outside it; 21:59:59 and
\* 02:00:00 give false.
C1_BlackoutIs22To02 ==
    checked => (blackoutResult <=> InWindow22To02(now))

-----------------------------------------------------------------------------
(***************************************************************************)
(* Claims about fetch_data.                                                *)
(***************************************************************************)
Events(name) == SelectSeq(trace, LAMBDA e : e[1] = name)
Count(name) == Len(Events(name))
AttemptsAndSleeps == SelectSeq(trace, LAMBDA e : e[1] \in {"attempt", "sleep"})

\* The call is over and every attempt it made failed with an SQLAlchemyError.
AllAttemptsFailedTransient ==
    /\ fpc = "done"
    /\ source \in {"BI", "ORACLE_LIVE"}
    /\ Count("rows") = 0
    /\ Count("other") = 0

\* C3: when every attempt fails with a transient error, fetch_data makes
\* exactly max_retries + 1 attempts, sleeps retry_delay once between each two
\* consecutive attempts and not after the last, and raises the last error.
C3_ExhaustedRetries ==
    AllAttemptsFailedTransient =>
        /\ Count("attempt") = max_retries + 1
        /\ Len(AttemptsAndSleeps) = 2 * max_retries + 1
        /\ \A i \in 1 .. Len(AttemptsAndSleeps) :
              AttemptsAndSleeps[i] =
                 IF i % 2 = 1 THEN <<"attempt", (i + 1) \div 2>>
                              ELSE <<"sleep", retry_delay>>
        /\ fetchResult = [kind |-> "raise",
                          error |-> Err("sql", max_retries + 1)]

C3_Witness ==
    /\ AllAttemptsFailedTransient
    /\ max_retries = DefaultMaxRetries
    /\ retry_delay = DefaultRetryDelay
    /\ Count("attempt") = 4
    /\ Count("sleep") = 3

\* The call is over and its attempt k got rows that it could hand back
\* (nothing was raised after the rows had been read).
SucceededAt(k) ==
    /\ fpc = "done"
    /\ \E i \in 1 .. Len(trace) :
          /\ trace[i] = <<"rows", k>>
          /\ \A j \in i + 1 .. Len(trace) : trace[j][1] # "other"

\* C4: if attempt k succeeds after k-1 transient failures, fetch_data returns
\* that attempt's rows at once: exactly k attempts and k-1 sleeps, and no
\* attempt and no sleep after the success.
C4_SuccessReturnsImmediately ==
    \A k \in 1 .. MaxRetriesBound + 2 :
        SucceededAt(k) =>
            /\ k <= max_retries + 1
            /\ fetchResult = [kind |-> "return", at |-> k]
            /\ Count("attempt") = k
            /\ Count("sleep") = k - 1
            /\ Count("sql") = k - 1
            /\ \A i \in 1 .. Len(trace) :
                  trace[i] = <<"rows", k>> =>
                     \A j \in i + 1 .. Len(trace) :
                        trace[j][1] \notin {"attempt", "sleep"}

C4_Witness ==
    /\ SucceededAt(3)
    /\ fetchResult = [kind |-> "return", at |-> 3]
    /\ max_retries = DefaultMaxRetries

\* C5: on every exit path every connection fetch_data opened is closed when
\* control is back with the caller, and never are two connections open.
C5_ConnectionsReleased ==
    /\ Cardinality(openConns) <= 1
    /\ (fpc = "done") => (openConns = {})

C5_Witness ==
    /\ fpc = "done"
    /\ fetchResult.kind = "raise"
    /\ fetchResult.error.kind = "other"
    /\ everOpened >= 2
    /\ Count("close") = everOpened

-----------------------------------------------------------------------------
(***************************************************************************)
(* Claims about the alert file's name.                                     *)
(***************************************************************************)
Contains(str, c) == \E i \in 1 .. Len(str) : str[i] = c

\* What stands in the name between "ALERT_<timestamp>_" and ".txt"
SubjectPart(name) == SubSeq(name, 6 + 15 + 1 + 1, Len(name) - 4)

\* C8: for every subject, also with spaces, '/' and '\', the file name has
\* neither '/' nor '\' and its sanitized-subject part has at most 30
\* characters.
C8_FilenameSafe ==
    filename # <<>> =>
        /\ ~Contains(filename, "/")
        /\ ~Contains(filename, "\\")
        /\ Len(SubjectPart(filename)) <= 30
        /\ Len(filename) <= 6 + 15 + 1 + 30 + 4

C8_Witness ==
    /\ filename # <<>>
    /\ Contains(nameSubject, "/")
    /\ Contains(nameSubject, "\\")
    /\ Contains(nameSubject, " ")
    /\ Len(nameSubject) > 30
    /\ Len(SubjectPart(filename)) = 30

-----------------------------------------------------------------------------
(***************************************************************************)
(* Claims about the alert sink.                                            *)
(***************************************************************************)
InLog(call, tag) == \E i \in 1 .. Len(call.log) : call.log[i] = tag

\* C6: send_alert never raises, whichever of its steps fail, and returns a
\* boolean; every alert-write failure is logged; when the directory cannot be
\* made no alert file is written and the call returns false.
C6_SendAlertNeverRaises ==
    [][calls' = calls + 1 =>
          /\ ~lastCall'.raised
          /\ lastCall'.ret \in BOOLEAN
          /\ "mkdir" \in lastCall'.hit =>
                 /\ InLog(lastCall', "mkdir_failed")
                 /\ alertFiles' = alertFiles
                 /\ lastCall'.ret = FALSE
          /\ ("write" \in lastCall'.hit \/ "history" \in lastCall'.hit) =>
                 /\ InLog(lastCall', "write_failed")
                 /\ lastCall'.ret = FALSE
    ]_vars

C6_Witness ==
    /\ calls >= 2
    /\ lastCall.hit = {"mkdir", "email"}
    /\ lastCall.ret = FALSE
    /\ ~lastCall.raised
    /\ ~alertDirExists
    /\ alertFiles = {}

\* The latest call wrote its alert file in full.
WroteFile(call) == "write" \in call.attempted /\ "write" \notin call.hit

\* No file deleted by the latest cleanup is newer than a file that is left.
DeletedAreOldest ==
    \A d \in lastCall.removed, r \in alertFiles : d.mtime <= r.mtime

-----------------------------------------------------------------------------
(***************************************************************************)
(* Claims about the job runner and the pipeline.                           *)
(***************************************************************************)
\* C2: for every job name and every work function that raises, safe_execute
\* returns normally, and exactly one alert is recorded, with the subject
\* "Error in {job_name} on {host}" for the job name passed and a body that
\* holds the exception's message and the stack trace.
C2_SafeExecuteIsolates ==
    jobRun.func = "raising" =>
        /\ ~jobRun.escaped
        /\ calls = 1
        /\ ~lastCall.raised
        /\ lastCall.subject = ErrorIn \o jobRun.job_name \o On \o Hostname
        /\ lastCall.body.job_name = jobRun.job_name
        /\ lastCall.body.details.message = jobRun.exc.msg
        /\ Len(lastCall.body.details.trace) = 3
        /\ lastCall.body.details.trace[3] = jobRun.exc.tb
        /\ lastCall.ret =>
              /\ Cardinality(alertFiles) = 1
              /\ \A file \in alertFiles :
                    /\ file.subject = lastCall.subject
                    /\ file.body = lastCall.body
              /\ Len(alertHistory) = 1

C2_Witness ==
    /\ jobRun.func = "raising"
    /\ jobRun.job_name = ScheduledJobDotCare
    /\ jobRun.exc.class = "SQLAlchemyError"
    /\ lastCall.ret
    /\ Cardinality(alertFiles) = 1

\* C9: when the fetch returns zero rows, the job returns without writing any
\* destination-table rows, without writing any snapshot file and without
\* recording any alert.
C9_EmptyFetchWritesNothing ==
    (jobRun.func = "_eligibility_iqama_job" /\ jobRun.fetched = 0) =>
        /\ jobRun.tables = {}
        /\ jobRun.snapshots = {}
        /\ jobRun.alerts = <<>>
        /\ calls = 0

\* The rows of frame df with key k, in order.
WithKey(df, k) == SelectSeq(df, LAMBDA r : r.key = k)

\* C10: when several fetched rows have the same key, the de-duplication
\* keeps exactly one row per key, the last-seen one, before anything
\* downstream; also when the rows of a key differ in other columns.
C10_OneRowPerKey ==
    jobRun.deduplicated =>
        \A k \in Keys :
            WithKey(jobRun.rows, k) # <<>> =>
                WithKey(jobRun.downstream, k) =
                   <<WithKey(jobRun.rows, k)[Len(WithKey(jobRun.rows, k))]>>

-----------------------------------------------------------------------------
(***************************************************************************)
(* Claims about the scheduler thread and the main flow.                    *)
(***************************************************************************)
\* C11: at every tick at which the job is due, the job is invoked through
\* the job runner if and only if the current time is not in the blackout
\* window [22:00, 02:00); a skip records no alert; in both cases the entry
\* is then due one interval later.
C11_DueTickGatedByWindow ==
    (lastStep.op = "run_pending" /\ lastStep.due) =>
        /\ lastStep.invoked <=> ~InWindow22To02(lastStep.at)
        /\ ~lastStep.invoked => lastStep.alerted = <<>>
        /\ lastStep.next = IntervalSeconds

\* C12: at startup the main flow waits, if the current time is in the
\* blackout window, until 02:00:00, and does not wait otherwise; the first
\* execution starts at a time that is not in the window.
C12_FirstRunOutsideWindow ==
    [][/\ (mpc = "blackout_check" /\ mpc' # mpc) =>
              (mpc' = "wait" <=> InWindow22To02(now))
       /\ (mpc = "wait" /\ mpc' # mpc) =>
              (mpc' = "first_job" /\ now' = WakeHour * 3600)
       /\ (mpc = "first_job" /\ mpc' # mpc) => ~InWindow22To02(now)
    ]_vars

\* A statement of the tick loop raises in this step.
LoopRaises ==
    /\ tpc \in {"run_pending", "sleep"}
    /\ mpc' = mpc
    /\ failures' > failures
    /\ lastStep'.raised

\* C13: an exception raised by run_pending or by the sleep of the tick loop
\* is caught and reported as exactly one alert, under the job name
\* "Scheduler_Thread"; the loop goes on, and the next thing it does is to
\* evaluate the due entries.
C13_LoopFailureReported ==
    [][LoopRaises =>
          /\ calls' = calls + 1
          /\ lastCall'.subject = ErrorIn \o SchedulerThread \o On \o Hostname
          /\ lastCall'.body.job_name = SchedulerThread
          /\ ~lastCall'.raised
          /\ lastStep'.op = tpc
          /\ tpc' = "run_pending"
    ]_vars

C13_Witness ==
    /\ lastStep.raised
    /\ lastStep.op = "sleep"
    /\ tpc = "run_pending"
    /\ entry.scheduled
    /\ lastCall.subject = ErrorSubject(SchedulerThread)
    /\ lastCall.ret

\* C14: after an interrupt that arrives while the main flow waits on the
\* scheduler thread, the shutdown notification is attempted, the tick loop
\* eventually stops and the process eventually terminates, with status 0.
C14_InterruptLeadsToExit ==
    [](interrupted =>
          <>(/\ mpc = "exited"
             /\ status = 0
             /\ tpc \notin {"run_pending", "sleep"}))

\* The alerts of alert_history.log with a subject.
HistoryOf(subject) == SelectSeq(alertHistory, LAMBDA h : h.subject = subject)

\* C15: when the query definitions cannot be loaded, the failure is logged as
\* critical, one alert is recorded, the process exits with a status that is
\* not 0, and neither the first job execution nor the scheduler is started;
\* nothing else that fails (a job, the tick loop, the delivery of an alert)
\* terminates the process.
C15_OnlyLoadFailureExits ==
    /\ startup.load = "failed" =>
          /\ startup.log = <<"critical">>
          /\ startup.alerted = <<CriticalSubject>>
          /\ lastCall.subject = CriticalSubject
          /\ Len(HistoryOf(CriticalSubject)) = IF lastCall.ret THEN 1 ELSE 0
          /\ status = 1
          /\ mpc \in {"exiting", "exited"}
          /\ tpc = "not_started"
          /\ ~entry.scheduled
          /\ lastStep = NoStep
    /\ status = 1 => startup.load = "failed"
    /\ mpc = "exited" => (startup.load = "failed" \/ startup.test_only)
    /\ (mpc = "exited" /\ startup.test_only) => status = 0

C15_Witness ==
    /\ mpc = "exited"
    /\ status = 1
    /\ startup.load = "failed"
    /\ ~startup.test_only
    /\ calls = 3
    /\ lastCall.ret

-----------------------------------------------------------------------------
(***************************************************************************)
(* More claims about the pipeline, fetch_data and the alert sink.          *)
(***************************************************************************)
\* C16: a transient failure of the pipeline's fetch is retried, the bounded
\* number of times, before the job fails: the alert for it is recorded only
\* after max_retries + 1 attempts.
C16_FetchRetriedBeforeAlert ==
    (jobRun.func = "_eligibility_iqama_job" /\ jobRun.failed_at = "read") =>
        /\ jobRun.alerts # <<>>
        /\ jobRun.reads = DefaultMaxRetries + 1

\* C17: the connection of a failed attempt is closed before the retry sleep
\* begins: no connection is open while fetch_data sleeps between attempts.
C17_ClosedBeforeSleep ==
    fpc = "sleep" => openConns = {}

\* C18: when a step of a send_alert call fails, every other step is still
\* attempted; when the alert file's write fails, the history append, the
\* cleanup and the mail are attempted.
C18_EveryStepAttempted ==
    (calls >= 1 /\ lastCall.hit # {}) =>
        {"write", "history", "cleanup", "email"} \subseteq lastCall.attempted

\* C19: a send_alert call whose alert-file write succeeds makes a file that
\* was not there before: no alert file of an earlier alert is overwritten.
C19_FreshFilePerAlert ==
    [][(calls' = calls + 1 /\ WroteFile(lastCall')) =>
          /\ lastCall'.name \notin {file.name : file \in alertFiles}
          /\ \A file \in alertFiles : file \in alertFiles' \cup lastCall'.removed
    ]_vars

\* C20: a failure of a step of the pipeline is reported by safe_execute
\* alone: exactly one alert, whose subject has the job name passed to
\* safe_execute.
C20_RunnerReportsUnderItsName ==
    (jobRun.func = "_eligibility_iqama_job" /\ jobRun.failed_at # "") =>
        /\ calls = 1
        /\ lastCall.subject = ErrorIn \o jobRun.job_name \o On \o Hostname

-----------------------------------------------------------------------------
(***************************************************************************)
(* Claims about the tick loop's pace.                                      *)
(***************************************************************************)
\* C21: a full inter-tick sleep separates any two consecutive evaluations
\* of the due entries, also when the earlier evaluation raised: whenever the
\* loop is about to evaluate, the statement it ran last, if any, is a sleep
\* that ran to its end.
C21_SleepBetweenEvaluations ==
    (tpc = "run_pending" /\ lastStep.op # "") =>
        (lastStep.op = "sleep" /\ ~lastStep.raised)

-----------------------------------------------------------------------------
(***************************************************************************)
(* Claims about the errors fetch_data retries.                             *)
(***************************************************************************)
\* The call is over, and it raised an error of one of its attempts.
RaisedFromAttempt ==
    /\ fpc = "done"
    /\ source \in {"BI", "ORACLE_LIVE"}
    /\ fetchResult.kind = "raise"

\* Attempt k of the call failed with an error of this kind.
FailedWith(kind, k) == \E i \in 1 .. Len(trace) : trace[i] = <<kind, k>>

\* C22, as stated: every error raised during an attempt, of whatever kind,
\* is followed by a retry while the budget lasts; fetch_data raises only
\* when the budget is exhausted, after max_retries + 1 attempts.
C22_EveryErrorRetried ==
    RaisedFromAttempt => Count("attempt") = max_retries + 1

\* C22, amended: every SQLAlchemyError raised during an attempt is followed
\* by a retry while the budget lasts, whatever its kind and wherever in the
\* attempt it was raised; an error of another class is followed by no
\* attempt: it is raised to the caller at once.  fetch_data raises either
\* the last SQLAlchemyError, after max_retries + 1 attempts, or that other
\* error, as the error of the last attempt made.
C22_OnlySqlAlchemyErrorsRetried ==
    fpc = "done" =>
        /\ \A k \in 1 .. MaxRetriesBound + 1 :
              /\ (FailedWith("sql", k) /\ k <= max_retries) =>
                    FailedWith("attempt", k + 1)
              /\ FailedWith("other", k) =>
                    /\ ~FailedWith("attempt", k + 1)
                    /\ fetchResult = [kind |-> "raise",
                                      error |-> Err("other", k)]
        /\ RaisedFromAttempt =>
              \/ /\ fetchResult.error = Err("sql", max_retries + 1)
                 /\ Count("attempt") = max_retries + 1
                 /\ Count("sql") = max_retries + 1
              \/ /\ fetchResult.error = Err("other", Count("attempt"))
                 /\ Count("sql") = Count("attempt") - 1

C22_Witness ==
    /\ RaisedFromAttempt
    /\ max_retries = DefaultMaxRetries
    /\ save_data
    /\ FailedWith("sql", 1)
    /\ FailedWith("rows", 2)
    /\ FailedWith("other", 2)
    /\ Count("attempt") = 2
    /\ fetchResult.error = Err("other", 2)

-----------------------------------------------------------------------------
(***************************************************************************)
(* Claims about what send_alert returns.                                   *)
(***************************************************************************)
\* The alert files that a step has written: those that were not there, or
\* were not the same, before.
Written == alertFiles' \ alertFiles

\* C25: send_alert returns true if and only if the alert's file was written;
\* when it returns false no file for the alert exists (also when only the
\* history append failed); when it returns true the alert file exists and
\* the history log has exactly one new line, the alert's.
C25_TrueIffFileWritten ==
    [][calls' = calls + 1 =>
          /\ lastCall'.ret <=> WroteFile(lastCall')
          /\ ~lastCall'.ret =>
                ~\E file \in Written : file.subject = lastCall'.subject
          /\ lastCall'.ret =>
                /\ \E file \in alertFiles' :
                      /\ file.name = lastCall'.name
                      /\ file.subject = lastCall'.subject
                      /\ file.complete
                /\ Len(alertHistory') = Len(alertHistory) + 1
                /\ alertHistory'[Len(alertHistory')].subject =
                      lastCall'.subject
    ]_vars

-----------------------------------------------------------------------------
(***************************************************************************)
(* Claims about the two threads at once.                                   *)
(***************************************************************************)
\* C23: at most one job execution is in progress at any time; the first
\* execution, made by the main flow, is over before the scheduler thread is
\* started, and the thread runs one job at a time.
C23_OneJobAtATime ==
    /\ Cardinality(running) <= 1
    /\ tpc # "not_started" => \A e \in running : e.by = "thread"
    /\ running # {} => (mpc = FirstJobCall \/ tpc = "in_job")

C23_Witness ==
    /\ running = {Execution("thread", ScheduledJobDotCare)}
    /\ tpc = "in_job"
    /\ mpc = "exiting"
    /\ interrupted
    /\ startup.load = "ok"

\* Both send_alert calls have returned.
BothDone == \A p \in Callers : sa[p].pc = "done"

\* Every alert file there has been since the two calls were made.
EverFiles == alertFiles \cup UNION {sa[p].removed : p \in Callers}

\* C24: under every interleaving of the two send_alert calls neither call
\* raises, each delivered alert has its own line in the history log, and
\* once both calls have returned at most MAX_ALERTS alert files are left
\* and no file among the MAX_ALERTS most recently modified has been deleted.
C24_SafeUnderInterleaving ==
    /\ \A p \in Callers : ~sa[p].raised
    /\ BothDone =>
          /\ \A p \in Callers :
                sa[p].ret => Len(HistoryOf(SubjectOf(p))) = 1
          /\ Cardinality(alertFiles) <= MAX_ALERTS
          /\ \A d \in EverFiles \ alertFiles :
                Cardinality({f \in EverFiles : f.mtime > d.mtime})
                   >= MAX_ALERTS

====
